---------------------------- MODULE Spec2Model ----------------------------
(***************************************************************************)
(* Model of the exec-over-WebSocket session (lxd/container_exec.go) and of *)
(* the devlxd guest socket (devlxd.go) of the LXD daemon.                  *)
(*                                                                         *)
(* Spec       : one exec POST, the attach handler Connect() run by any     *)
(*              number of concurrent HTTP requests, and the orchestrator   *)
(*              Do() with the goroutines it starts.                        *)
(* FairSpec   : Spec with the fairness the Go scheduler gives to runnable  *)
(*              goroutines of the orchestrator.                            *)
(* ReadySpec  : Spec with the fairness of the attach handshake.            *)
(* DevSpec    : the devlxd connection-state callback, the request wrapper  *)
(*              hoistReq and the PID -> container resolver, one call at a  *)
(*              time.                                                      *)
(* RaceSpec   : the same callback and wrapper with their accesses to the   *)
(*              connection -> PID map as steps that begin and end.         *)
(* ConfigSpec : the devlxd config handlers, for every container config.    *)
(***************************************************************************)
EXTENDS Integers, Sequences, FiniteSets, Bags, TLC

VARIABLES
    post,              \* response of containerExecPost ("none" before the POST)
    command,           \* execWs.command / post.Command (argv)
    interactive,       \* execWs.interactive
    fds,               \* execWs.fds   : index -> secret
    conns,             \* execWs.conns : index -> WebSocket (Nil until attached);
                       \* the k-th WebSocket stored under an index is named k
    allConnected,      \* number of values buffered in chan allConnected
    controlConnected,  \* number of values buffered in chan controlConnected
    started,           \* number of Connect() calls begun so far
    call,              \* the Connect() calls in flight, a bag of
                       \* [pc, secret, fd, retry]: position, ?secret=, matched
                       \* index, and whether the client makes the call again
                       \* after its last one failed in the upgrade
    ret,               \* the last return of a Connect() call: secret and error
    doPc,              \* position of the goroutine running Do()
    doResult,          \* what Do() / the async run closure returned
    ttys,              \* ttys[i] of Do(): "none", "nil", "open", "closed"
    ptys,              \* ptys[i] of Do()
    proc,              \* the in-container process: "none", "running", "exited"
    reader,            \* the control-reader goroutine of Do()
    bridge,            \* the three batch goroutines of Do(), by index
    mirror,            \* the WebsocketMirror bridge on index 0
    winSize,           \* last size given to shared.SetSize on the PTY master
    skipLog            \* what the control reader has logged: "none", "skipped"
                       \* (a message was logged and skipped), "resized" (the
                       \* size was set by a message that came after a skipped one)

execVars == <<post, command, interactive, fds, conns, allConnected,
              controlConnected, started, call, ret, doPc, doResult, ttys,
              ptys, proc, reader, bridge, mirror, winSize, skipLog>>

VARIABLES
    connState,   \* last http.ConnState reported for each connection
    cred,        \* what getPid() returned at StateNew: the peer PID, or -1
    pidMapper,   \* pidMapper.m : connection -> PID
    req,         \* the last request served by hoistReq
    mapAccess    \* per connection, the access to pidMapper.m in progress on
                 \* its behalf: the operation ("none", "insert", "delete",
                 \* "lookup") and whether it overlapped a conflicting one

devVars == <<connState, cred, pidMapper, req, mapAccess>>

VARIABLES
    config,      \* c.config of the container a devlxd handler runs as
    httpResp     \* the last response hoistReq wrote for a config handler

cfgVars == <<config, httpResp>>
vars == <<execVars, devVars, cfgVars>>

-----------------------------------------------------------------------------
(* Bounds of the model *)

\* number of Connect() calls (HTTP attach requests) made on the session
MaxConnects == 3

\* capacity of the buffered channels allConnected and controlConnected
ChanCap == 1

Nil == 0
ControlFd == -1
StdFds == 0..2

\* shared.RandomCryptoString(): a fresh token for every index
RandomCryptoString(i) ==
    CASE i = -1 -> "secret-control"
      [] i = 0  -> "secret-0"
      [] i = 1  -> "secret-1"
      [] i = 2  -> "secret-2"

\* what a client may send as ?secret=
BadSecret == "not-a-secret"
SecretInputs == {RandomCryptoString(i) : i \in (-1)..2} \cup {BadSecret}

\* argv values of the POST body: missing/empty or a one-word command
Commands == {<<>>, <<"/bin/cat">>}

NoReturn == [secret |-> BadSecret, result |-> "none"]

NoFiles == [i \in StdFds |-> "none"]


-----------------------------------------------------------------------------
(* containerExecPost: the exec POST handler (container_exec.go 210-292) *)

\* the keys ws.conns gets: -1 and 0, plus 1 and 2 in batch mode
ConnKeys(inter) == IF inter THEN {-1, 0} ELSE {-1, 0, 1, 2}

\* for i := -1; i < len(ws.conns)-1; i++ { ws.fds[i] = RandomCryptoString() }
NewFds(inter) ==
    [i \in (-1)..(Cardinality(ConnKeys(inter)) - 2) |-> RandomCryptoString(i)]

\* The response the handler gives.  found: newLxdContainer succeeded;
\* running: c.c.Running(); bodyOk: the body was read and is valid JSON;
\* randOk: every RandomCryptoString() call succeeded.  The handler never looks
\* at cmd, the argv it parsed.
PostResponse(found, running, bodyOk, cmd, waitWs, randOk) ==
    IF ~found THEN "SmartError"
    ELSE IF ~running THEN "BadRequest"
    ELSE IF ~bodyOk THEN "BadRequest"
    ELSE IF waitWs THEN (IF randOk THEN "AsyncWs" ELSE "InternalError")
    ELSE "Async"

containerExecPost(found, running, bodyOk, cmd, waitWs, inter, randOk) ==
    /\ post = "none"
    /\ post' = PostResponse(found, running, bodyOk, cmd, waitWs, randOk)
    /\ command' = IF found /\ running /\ bodyOk THEN cmd ELSE command
    /\ IF post' = "AsyncWs"
       THEN /\ interactive' = inter
            /\ conns' = [i \in ConnKeys(inter) |-> Nil]
            /\ fds' = NewFds(inter)
            /\ doPc' = "wait"
       ELSE /\ doPc' = IF post' = "Async" THEN "openNull" ELSE doPc
            /\ UNCHANGED <<interactive, conns, fds>>
    /\ UNCHANGED <<devVars, cfgVars, skipLog, allConnected, controlConnected, started, call, ret, doResult, ttys, ptys,
                   proc, reader, bridge, mirror, winSize>>

-----------------------------------------------------------------------------
(* execWs.Connect: the attach handler (container_exec.go 45-73) *)

\* MatchingFds with the comparison of the secrets left out: the first index
\* of the range loop is taken whatever the secret
MatchingFdsNoCompare(secret) == DOMAIN fds

\* for fd, fdSecret := range s.fds { if secret == fdSecret { ... } }
MatchingFds(secret) == {fd \in DOMAIN fds : fds[fd] = secret}

\* a Connect() call that has passed the range loop with the given secret and
\* matched index, and is about to upgrade
InFlight(secret, fd) ==
    [pc |-> "upgrade", secret |-> secret, fd |-> fd,
     retry |-> (ret = [secret |-> secret, result |-> "UpgradeError"])]
One(c) == SetToBag({c})
CallRecords ==
    [pc : {"upgrade", "signal"}, secret : SecretInputs, fd : (-1)..2,
     retry : BOOLEAN]

\* entry of Connect(): the range loop finds the index of the secret, or the
\* call returns os.ErrPermission (HTTP 403) without upgrading
ConnectStart(secret) ==
    /\ post = "AsyncWs"
    /\ started < MaxConnects
    /\ started' = started + 1
    /\ IF MatchingFds(secret) = {}
       THEN /\ ret' = [secret |-> secret, result |-> "Permission"]
            /\ UNCHANGED call
       ELSE /\ \E fd \in MatchingFds(secret) :
                 call' = call (+) One(InFlight(secret, fd))
            /\ UNCHANGED ret
    /\ UNCHANGED <<devVars, cfgVars, skipLog, post, command, interactive, fds, conns, allConnected,
                   controlConnected, doPc, doResult, ttys, ptys, proc, reader,
                   bridge, mirror, winSize>>

\* ConnsAfterUpgrade with the store made before the error check
ConnsStoredBeforeErrCheck(fd, ok) == [conns EXCEPT ![fd] = @ + 1]

\* conn, err := WebsocketUpgrader.Upgrade(w, r, nil); if err != nil { return err }
\* s.conns[fd] = conn
ConnsAfterUpgrade(fd, ok) ==
    IF ok THEN [conns EXCEPT ![fd] = @ + 1] ELSE conns

ConnectUpgrade(c, ok) ==
    /\ BagIn(c, call)
    /\ c.pc = "upgrade"
    /\ conns' = ConnsAfterUpgrade(c.fd, ok)
    /\ IF ok
       THEN /\ call' = (call (-) One(c)) (+) One([c EXCEPT !.pc = "signal"])
            /\ UNCHANGED ret
       ELSE /\ call' = call (-) One(c)
            /\ ret' = [secret |-> c.secret, result |-> "UpgradeError"]
    /\ UNCHANGED <<devVars, cfgVars, skipLog, post, command, interactive, fds, allConnected,
                   controlConnected, started, doPc, doResult, ttys, ptys, proc,
                   reader, bridge, mirror, winSize>>

\* for i, c := range s.conns { if i != -1 && c == nil { return nil } }
AllStdAttached == \A i \in DOMAIN conns : i # ControlFd => conns[i] # Nil

\* SignalOf without the loop of lines 60-64: allConnected is sent after every
\* attach of a non-control index
SignalOfNoNilCheck(fd) ==
    IF fd = ControlFd THEN "controlConnected" ELSE "allConnected"

\* the channel Connect() sends on after storing the WebSocket, "none" when it
\* returns without sending
SignalOf(fd) ==
    IF fd = ControlFd THEN "controlConnected"
    ELSE IF AllStdAttached THEN "allConnected" ELSE "none"

\* the tail of Connect(): s.controlConnected <- true, or s.allConnected <- true
\* when no non-control index is nil; a send blocks while the buffer is full
ConnectSignal(c) ==
    /\ BagIn(c, call)
    /\ c.pc = "signal"
    /\ CASE SignalOf(c.fd) = "controlConnected" ->
              /\ controlConnected < ChanCap
              /\ controlConnected' = controlConnected + 1
              /\ UNCHANGED allConnected
         [] SignalOf(c.fd) = "allConnected" ->
              /\ allConnected < ChanCap
              /\ allConnected' = allConnected + 1
              /\ UNCHANGED controlConnected
         [] OTHER -> UNCHANGED <<allConnected, controlConnected>>
    /\ call' = call (-) One(c)
    /\ ret' = [secret |-> c.secret, result |-> "nil"]
    /\ UNCHANGED <<devVars, cfgVars, skipLog, post, command, interactive, fds, conns, started, doPc,
                   doResult, ttys, ptys, proc, reader, bridge, mirror, winSize>>

-----------------------------------------------------------------------------
(* execWs.Do: the orchestrator (container_exec.go 75-208) *)

\* <-s.allConnected
DoWait ==
    /\ doPc = "wait"
    /\ allConnected > 0
    /\ allConnected' = allConnected - 1
    /\ doPc' = "alloc"
    /\ UNCHANGED <<devVars, cfgVars, skipLog, post, command, interactive, fds, conns, controlConnected,
                   started, call, ret, doResult, ttys, ptys, proc, reader, bridge, mirror,
                   winSize>>

\* the pipes opened by the loop of lines 92-97 when shared.Pipe() fails at its
\* failAt-th call (failAt = 0: no failure): the earlier ones stay open
PipesOpened(failAt) ==
    [i \in StdFds |-> IF failAt = 0 \/ i + 1 < failAt THEN "open" ELSE "none"]

\* lines 82-101.  Interactive: OpenPty, whose error is never looked at (on
\* failure both files are nil and Do() goes on).  Batch: three pipes; the
\* first failure returns OperationError at once.
DoAlloc(failAt) ==
    /\ doPc = "alloc"
    /\ IF interactive
       THEN /\ failAt \in 0..1
            /\ ttys' = [ttys EXCEPT ![0] = IF failAt = 0 THEN "open" ELSE "nil"]
            /\ ptys' = [ptys EXCEPT ![0] = IF failAt = 0 THEN "open" ELSE "nil"]
            /\ doPc' = "start"
            /\ UNCHANGED doResult
       ELSE /\ ttys' = PipesOpened(failAt)
            /\ ptys' = PipesOpened(failAt)
            /\ doPc' = IF failAt = 0 THEN "start" ELSE "returned"
            /\ doResult' = IF failAt = 0 THEN doResult ELSE "error"
    /\ UNCHANGED <<devVars, cfgVars, skipLog, post, command, interactive, fds, conns, allConnected,
                   controlConnected, started, call, ret, proc, reader, bridge, mirror,
                   winSize>>

\* lines 103-180: the goroutines Do() starts before it runs the command.
\* Interactive: the control reader and the mirror on index 0, which Do() starts
\* and does not wait for.  Batch: one goroutine per index.
DoStart ==
    /\ doPc = "start"
    /\ IF interactive
       THEN /\ reader' = "select"
            /\ mirror' = "running"
            /\ UNCHANGED bridge
       ELSE /\ bridge' = [i \in StdFds |-> "running"]
            /\ UNCHANGED <<reader, mirror>>
    /\ doPc' = "run"
    /\ UNCHANGED <<devVars, cfgVars, skipLog, post, command, interactive, fds, conns, allConnected,
                   controlConnected, started, call, ret, doResult, ttys, ptys, proc, winSize>>

-----------------------------------------------------------------------------
(* runCommand (container_exec.go 17-30) and the run closure (275-289) *)

\* nullDev, err := os.OpenFile(os.DevNull, ...) of the run closure
RunOpenNull(ok) ==
    /\ doPc = "openNull"
    /\ doPc' = IF ok THEN "run" ELSE "returned"
    /\ doResult' = IF ok THEN doResult ELSE "error"
    /\ UNCHANGED <<devVars, cfgVars, skipLog, post, command, interactive, fds, conns, allConnected,
                   controlConnected, started, call, ret, ttys, ptys, proc, reader, bridge,
                   mirror, winSize>>

\* container.RunCommandStatus(command, options): the attach fails (runCommand
\* returns OperationError) or the process starts in the container
runCommand(ok) ==
    /\ doPc = "run"
    /\ IF ok
       THEN /\ proc' = "running"
            /\ doPc' = "running"
            /\ UNCHANGED doResult
       ELSE /\ doResult' = "error"
            /\ doPc' = "afterRun"
            /\ UNCHANGED proc
    /\ UNCHANGED <<devVars, cfgVars, skipLog, post, command, interactive, fds, conns, allConnected,
                   controlConnected, started, call, ret, ttys, ptys, reader, bridge, mirror,
                   winSize>>

\* the process exits: RunCommandStatus returns its status
ProcExit ==
    /\ doPc = "running"
    /\ proc = "running"
    /\ proc' = "exited"
    /\ doResult' = "return"
    /\ doPc' = "afterRun"
    /\ UNCHANGED <<devVars, cfgVars, skipLog, post, command, interactive, fds, conns, allConnected,
                   controlConnected, started, call, ret, ttys, ptys, reader, bridge, mirror,
                   winSize>>

\* f.Close() on every file of fs whose index is in which
CloseFiles(fs, which) ==
    [i \in StdFds |-> IF i \in which /\ fs[i] = "open" THEN "closed" ELSE fs[i]]

\* lines 188-193 up to the receive, or the return of the run closure
DoAfterRun ==
    /\ doPc = "afterRun"
    /\ IF post = "Async"
       THEN /\ doPc' = "returned"
            /\ UNCHANGED ttys
       ELSE IF interactive
       THEN /\ doPc' = "closeAll"
            /\ UNCHANGED ttys
       ELSE /\ ttys' = CloseFiles(ttys, StdFds)
            /\ doPc' = "waitEOF"
    /\ UNCHANGED <<devVars, cfgVars, skipLog, post, command, interactive, fds, conns, allConnected,
                   controlConnected, started, call, ret, doResult, ptys, proc, reader,
                   bridge, mirror, winSize>>

\* the number of values Do() receives from stdEOF before it goes on (line 192)
StdEOFReceives == 1

\* <-stdEOF (line 192) meeting stdEOF <- true (line 176) of bridge i: the
\* channel is unbuffered, sender and receiver move together
DoWaitEOF(i) ==
    /\ doPc = "waitEOF"
    /\ bridge[i] = "sendEOF"
    /\ bridge' = [bridge EXCEPT ![i] = "done"]
    /\ doPc' = IF Cardinality({j \in StdFds : bridge'[j] = "done" /\ j # 0})
                    >= StdEOFReceives
               THEN "closeAll" ELSE "waitEOF"
    /\ UNCHANGED <<devVars, cfgVars, skipLog, post, command, interactive, fds, conns, allConnected,
                   controlConnected, started, call, ret, doResult, ttys, ptys, proc, reader,
                   mirror, winSize>>

\* lines 195-201: close every tty and every pty
DoCloseAll ==
    /\ doPc = "closeAll"
    /\ ttys' = CloseFiles(ttys, StdFds)
    /\ ptys' = CloseFiles(ptys, StdFds)
    /\ doPc' = "checkControl"
    /\ UNCHANGED <<devVars, cfgVars, skipLog, post, command, interactive, fds, conns, allConnected,
                   controlConnected, started, call, ret, doResult, proc, reader, bridge,
                   mirror, winSize>>

\* line 203: if s.interactive && s.conns[-1] == nil
DoCheckControl ==
    /\ doPc = "checkControl"
    /\ doPc' = IF interactive /\ conns[ControlFd] = Nil THEN "sendExit"
               ELSE "returned"
    /\ UNCHANGED <<devVars, cfgVars, skipLog, post, command, interactive, fds, conns, allConnected,
                   controlConnected, started, call, ret, doResult, ttys, ptys, proc, reader,
                   bridge, mirror, winSize>>

\* line 204 meeting line 112: controlExit <- true is received by the control
\* reader only while it is still in its select (controlExit is unbuffered)
DoSendExit ==
    /\ doPc = "sendExit"
    /\ reader = "select"
    /\ reader' = "done"
    /\ doPc' = "returned"
    /\ UNCHANGED <<devVars, cfgVars, skipLog, post, command, interactive, fds, conns, allConnected,
                   controlConnected, started, call, ret, doResult, ttys, ptys, proc, bridge,
                   mirror, winSize>>

-----------------------------------------------------------------------------
(* The control reader goroutine of Do() (container_exec.go 107-164) *)

Digits == {"0", "1", "2", "3", "4", "5", "6", "7", "8", "9"}

DigitVal(c) ==
    CASE c = "0" -> 0 [] c = "1" -> 1 [] c = "2" -> 2 [] c = "3" -> 3
      [] c = "4" -> 4 [] c = "5" -> 5 [] c = "6" -> 6 [] c = "7" -> 7
      [] c = "8" -> 8 [] c = "9" -> 9

RECURSIVE DecimalValue(_)
DecimalValue(s) ==
    IF s = <<>> THEN 0
    ELSE 10 * DecimalValue(SubSeq(s, 1, Len(s) - 1)) + DigitVal(s[Len(s)])

\* strconv.Atoi on a string given as its characters: [ok, val]
Atoi(s) ==
    LET body == IF s # <<>> /\ s[1] \in {"+", "-"} THEN Tail(s) ELSE s
    IN  IF body = <<>> \/ \E k \in 1..Len(body) : body[k] \notin Digits
        THEN [ok |-> FALSE, val |-> 0]
        ELSE [ok |-> TRUE,
              val |-> IF s[1] = "-" THEN 0 - DecimalValue(body)
                      ELSE DecimalValue(body)]

\* what the control WebSocket may deliver to NextReader / ReadAll / Unmarshal
Widths == {<<"8", "0">>, <<"w">>, <<>>}
Heights == {<<"2", "4">>, <<"2", "x">>}
ControlMessages ==
    {[kind |-> k, command |-> "", width |-> <<>>, height |-> <<>>] :
        k \in {"close", "error", "badjson"}}
    \cup {[kind |-> "json", command |-> "window-resize", width |-> w,
           height |-> h] : w \in Widths, h \in Heights}
    \cup {[kind |-> "json", command |-> "refresh", width |-> <<"8", "0">>,
           height |-> <<"2", "4">>]}

\* a message the loop logs and skips with `continue`: json.Unmarshal failed,
\* or Atoi rejected the width or the height of a window-resize (lines 135-151)
Skipped(msg) ==
    \/ msg.kind = "badjson"
    \/ /\ msg.kind = "json"
       /\ msg.command = "window-resize"
       /\ ~(Atoi(msg.width).ok /\ Atoi(msg.height).ok)

\* a message for which the loop reaches shared.SetSize (line 153)
SetSizeCalled(msg) ==
    /\ msg.kind = "json"
    /\ msg.command = "window-resize"
    /\ Atoi(msg.width).ok
    /\ Atoi(msg.height).ok

\* the outcomes of shared.SetSize for a message: it succeeds or fails where
\* it is called
SetSizeOutcomes(msg) == IF SetSizeCalled(msg) THEN BOOLEAN ELSE {TRUE}

\* SizeAfter without the `continue` after a failed Atoi: SetSize is called
\* with what Atoi returned
SizeAfterNoContinue(msg, sizeOk) ==
    IF msg.kind = "json" /\ msg.command = "window-resize" /\ sizeOk
    THEN <<Atoi(msg.width).val, Atoi(msg.height).val>>
    ELSE winSize

\* the size set on the PTY master by one message (lines 140-157); sizeOk is
\* whether the ioctl of shared.SetSize succeeded
SizeAfter(msg, sizeOk) ==
    IF SetSizeCalled(msg) /\ sizeOk
    THEN <<Atoi(msg.width).val, Atoi(msg.height).val>>
    ELSE winSize

\* the record of what the reader logged: a skipped message, then a size set
\* after it
SkipLogAfter(msg, sizeOk) ==
    IF Skipped(msg) /\ skipLog = "none" THEN "skipped"
    ELSE IF SetSizeCalled(msg) /\ sizeOk /\ skipLog = "skipped" THEN "resized"
    ELSE skipLog

\* select { case <-s.controlConnected: break; case <-controlExit: return }:
\* the first case (the second is DoSendExit)
ReaderConnected ==
    /\ reader = "select"
    /\ controlConnected > 0
    /\ controlConnected' = controlConnected - 1
    /\ reader' = "loop"
    /\ UNCHANGED <<devVars, cfgVars, skipLog, post, command, interactive, fds, conns, allConnected, started, call, ret,
                   doPc, doResult, ttys, ptys, proc, bridge, mirror, winSize>>

\* one turn of the for loop: a close frame or a read error ends the reader,
\* everything else is consumed and the loop goes on
ReaderMessage(msg, sizeOk) ==
    /\ reader = "loop"
    /\ reader' = IF msg.kind \in {"close", "error"} THEN "done" ELSE "loop"
    /\ winSize' = SizeAfter(msg, sizeOk)
    /\ skipLog' = SkipLogAfter(msg, sizeOk)
    /\ UNCHANGED <<devVars, cfgVars, post, command, interactive, fds, conns,
                   allConnected, controlConnected, started, call, ret, doPc,
                   doResult, ttys, ptys, proc, bridge, mirror>>

-----------------------------------------------------------------------------
(* The stdio bridges started by Do() (container_exec.go 166-179) *)

\* recv_stream / send_stream / mirror end on end-of-file of the descriptor
\* (possible once the process has exited and Do() holds its end open no more)
\* or on an error or close of the WebSocket (possible at any time)
CanEnd(cause, i) ==
    \/ cause = "error"
    \/ cause = "eof" /\ proc # "running" /\ ttys[i] # "open"

\* i == 0: <-WebsocketRecvStream(ttys[0], conns[0]); ttys[0].Close()
RecvStreamDone ==
    /\ bridge[0] = "running"
    /\ ttys' = CloseFiles(ttys, {0})
    /\ bridge' = [bridge EXCEPT ![0] = "done"]
    /\ UNCHANGED <<devVars, cfgVars, skipLog, post, command, interactive, fds, conns, allConnected,
                   controlConnected, started, call, ret, doPc, doResult, ptys, proc, reader,
                   mirror, winSize>>

\* i > 0: <-WebsocketSendStream(conns[i], ptys[i]); ptys[i].Close(); the
\* goroutine then waits to send on stdEOF
SendStreamDone(i, cause) ==
    /\ i \in {1, 2}
    /\ bridge[i] = "running"
    /\ CanEnd(cause, i)
    /\ ptys' = CloseFiles(ptys, {i})
    /\ bridge' = [bridge EXCEPT ![i] = "sendEOF"]
    /\ UNCHANGED <<devVars, cfgVars, skipLog, post, command, interactive, fds, conns, allConnected,
                   controlConnected, started, call, ret, doPc, doResult, ttys, proc, reader,
                   mirror, winSize>>

\* the mirror on index 0 completes (both halves have ended)
MirrorDone(cause) ==
    /\ mirror = "running"
    /\ CanEnd(cause, 0)
    /\ mirror' = "done"
    /\ UNCHANGED <<devVars, cfgVars, skipLog, post, command, interactive, fds, conns, allConnected,
                   controlConnected, started, call, ret, doPc, doResult, ttys, ptys, proc,
                   reader, bridge, winSize>>

-----------------------------------------------------------------------------
(* The exec specification *)

ExecInit ==
    /\ post = "none"
    /\ command = <<>>
    /\ interactive = FALSE
    /\ fds = <<>>
    /\ conns = <<>>
    /\ allConnected = 0
    /\ controlConnected = 0
    /\ started = 0
    /\ call = EmptyBag
    /\ ret = NoReturn
    /\ doPc = "idle"
    /\ doResult = "none"
    /\ ttys = NoFiles
    /\ ptys = NoFiles
    /\ proc = "none"
    /\ reader = "none"
    /\ bridge = [i \in StdFds |-> "none"]
    /\ mirror = "none"
    /\ winSize = <<0, 0>>
    /\ skipLog = "none"

Post ==
    \E found, running, bodyOk, waitWs, inter, randOk \in BOOLEAN :
      \E cmd \in Commands :
        containerExecPost(found, running, bodyOk, cmd, waitWs, inter, randOk)

Connect ==
    \/ \E secret \in SecretInputs : ConnectStart(secret)
    \/ \E c \in CallRecords : \E ok \in BOOLEAN : ConnectUpgrade(c, ok)
    \/ \E c \in CallRecords : ConnectSignal(c)

Do ==
    \/ DoWait
    \/ \E failAt \in 0..3 : DoAlloc(failAt)
    \/ DoStart
    \/ \E ok \in BOOLEAN : RunOpenNull(ok)
    \/ \E ok \in BOOLEAN : runCommand(ok)
    \/ ProcExit
    \/ DoAfterRun
    \/ \E i \in {1, 2} : DoWaitEOF(i)
    \/ DoCloseAll
    \/ DoCheckControl
    \/ DoSendExit

ControlReader ==
    \/ ReaderConnected
    \/ \E msg \in ControlMessages : \E sizeOk \in SetSizeOutcomes(msg) :
         ReaderMessage(msg, sizeOk)

Bridges ==
    \/ RecvStreamDone
    \/ \E i \in {1, 2} : \E cause \in {"eof", "error"} : SendStreamDone(i, cause)
    \/ \E cause \in {"eof", "error"} : MirrorDone(cause)

ExecNext == Post \/ Connect \/ Do \/ ControlReader \/ Bridges

-----------------------------------------------------------------------------
(* devlxd: the connection -> PID map and the PID -> container resolver     *)
(* (devlxd.go)                                                             *)


\* highest PID of the process table (PID 1 is the host's init)
MaxPid == 3

UnixConns == {"conn-a", "conn-b"}
Pids == 1..MaxPid
ContainerNames == {"c1", "c2"}
PidNamespaces == {"host"} \cup ContainerNames

\* /proc/<pid>/cmdline contents, as their characters
ShellCmdline == <<"s", "h", " ", "-", "c", " ", "x">>
MonitorC1 == <<"[", "l", "x", "c", " ", "m", "o", "n", "i", "t", "o", "r", "]", " ", "/", "l", "x", "c", " ", "c", "1">>
MonitorC2 == <<"[", "l", "x", "c", " ", "m", "o", "n", "i", "t", "o", "r", "]", " ", "/", "l", "x", "c", " ", "c", "2">>
MonitorGone == <<"[", "l", "x", "c", " ", "m", "o", "n", "i", "t", "o", "r", "]", " ", "/", "l", "x", "c", " ", "z", "z">>
Cmdlines == {ShellCmdline, MonitorC1, MonitorC2, MonitorGone}
MonitorSentinel == <<"[", "l", "x", "c", " ", "m", "o", "n", "i", "t", "o", "r", "]">>

\* the container names as the characters a command line spells them with
NameOfChars(token) ==
    CASE token = <<"c", "1">> -> "c1"
      [] token = <<"c", "2">> -> "c2"
      [] OTHER -> "unknown"

\* strings.HasPrefix
HasPrefix(str, prefix) ==
    /\ Len(str) >= Len(prefix)
    /\ SubSeq(str, 1, Len(prefix)) = prefix

\* strings.Split(str, " ")
RECURSIVE Split(_)
Split(str) ==
    IF \A k \in 1..Len(str) : str[k] # " " THEN <<str>>
    ELSE LET k == CHOOSE k \in 1..Len(str) :
                      /\ str[k] = " "
                      /\ \A j \in 1..(k - 1) : str[j] # " "
         IN  <<SubSeq(str, 1, k - 1)>> \o Split(SubSeq(str, k + 1, Len(str)))

\* parts := strings.Split(cmdline, " "); name := parts[len(parts)-1]
LastPart(str) == Split(str)[Len(Split(str))]

\* per command line: whether it looks like an lxc monitor, and the container
\* name the resolver takes from it
LooksLikeMonitor == [c \in Cmdlines |-> HasPrefix(c, MonitorSentinel)]
MonitorName == [c \in Cmdlines |-> NameOfChars(LastPart(c))]

\* The process tables /proc may show: for every PID above 1 its parent (lower
\* PID), its PID namespace and its command line, which the process itself
\* chooses.  PID 1 is the host's init.
ProcTables ==
    {[ppid |-> pp, ns |-> n, cmdline |-> cl] :
        pp \in {f \in [2..MaxPid -> Pids] : \A q \in 2..MaxPid : f[q] < q},
        n \in [2..MaxPid -> PidNamespaces],
        cl \in [2..MaxPid -> Cmdlines]}

NsOf(tab, pid) == IF pid = 1 THEN "host" ELSE tab.ns[pid]

\* c.c.InitPid(): the first process of the container's PID namespace, -1 when
\* the container is not running
InitPid(tab, name) ==
    IF \E q \in 2..MaxPid : tab.ns[q] = name
    THEN CHOOSE q \in 2..MaxPid :
           /\ tab.ns[q] = name
           /\ \A r \in 2..(q - 1) : tab.ns[r] # name
    ELSE -1

\* dbListContainers: the known containers, in either order
ContainerLists == {<<"c1", "c2">>, <<"c2", "c1">>}

\* newLxdContainer(name, d): fails for a name the database does not know
NewLxdContainer(name) ==
    IF name \in ContainerNames THEN [err |-> "nil", name |-> name]
    ELSE [err |-> "no such container", name |-> "none"]

\* lines 352-368: the loop over the known containers.  Readlink of
\* /proc/<InitPid>/ns/pid fails for a container that is not running.
RECURSIVE NsFallback(_, _, _)
NsFallback(tab, list, origPidNs) ==
    IF list = <<>> THEN [err |-> "pid not in container?", name |-> "none"]
    ELSE IF InitPid(tab, Head(list)) \notin Pids
         THEN [err |-> "readlink", name |-> "none"]
    ELSE IF NsOf(tab, InitPid(tab, Head(list))) = origPidNs
         THEN [err |-> "nil", name |-> Head(list)]
    ELSE NsFallback(tab, Tail(list), origPidNs)

\* lines 308-340: the walk up the process tree from pid
RECURSIVE AncestryWalk(_, _, _, _)
AncestryWalk(tab, list, origpid, pid) ==
    IF pid > 1
    THEN IF LooksLikeMonitor[tab.cmdline[pid]]
         THEN NewLxdContainer(MonitorName[tab.cmdline[pid]])
         ELSE AncestryWalk(tab, list, origpid, tab.ppid[pid])
    ELSE NsFallback(tab, list, NsOf(tab, origpid))

findContainerForPid(tab, list, pid) == AncestryWalk(tab, list, pid, pid)

\* the container whose PID namespace contains pid ("none": the host's)
ContainerOfNs(tab, pid) ==
    IF NsOf(tab, pid) \in ContainerNames THEN NsOf(tab, pid) ELSE "none"

-----------------------------------------------------------------------------
(* ConnPidMapper.ConnStateHandler and hoistReq (devlxd.go) *)

\* the http.ConnState transitions net/http reports for one connection; a
\* connection that was closed or hijacked is gone, and its identity may be
\* that of a later connection
ServerReports(from, to) ==
    \/ from \in {"none", "closed", "hijacked"} /\ to = "new"
    \/ from = "new" /\ to \in {"active", "closed"}
    \/ from = "active" /\ to \in {"idle", "hijacked", "closed"}
    \/ from = "idle" /\ to \in {"active", "closed"}

ConnStates == {"new", "active", "idle", "hijacked", "closed"}

\* delete(m.m, unixConn)
MapDelete(m, conn) == [x \in DOMAIN m \ {conn} |-> m[x]]

\* m.m[unixConn] = pid
MapInsert(m, conn, pid) ==
    [x \in DOMAIN m \cup {conn} |-> IF x = conn THEN pid ELSE m[x]]

\* MapAfter without the StateHijacked case
MapAfterNoHijack(m, conn, state, pid) ==
    CASE state = "new" -> IF pid = -1 THEN m ELSE MapInsert(m, conn, pid)
      [] state = "closed" -> MapDelete(m, conn)
      [] OTHER -> m

\* the switch of ConnStateHandler; pid is what getPid() returned, -1 with an
\* error
MapAfter(m, conn, state, pid) ==
    CASE state = "new" -> IF pid = -1 THEN m ELSE MapInsert(m, conn, pid)
      [] state \in {"active", "idle"} -> m
      [] state \in {"hijacked", "closed"} -> MapDelete(m, conn)
      [] OTHER -> m

ConnStateHandler(conn, state, pid) ==
    /\ ServerReports(connState[conn], state)
    /\ connState' = [connState EXCEPT ![conn] = state]
    /\ cred' = IF state = "new" THEN [cred EXCEPT ![conn] = pid] ELSE cred
    /\ pidMapper' = MapAfter(pidMapper, conn, state, pid)
    /\ UNCHANGED <<req, mapAccess, execVars, cfgVars>>

\* no access to pidMapper.m in progress
NoAccess == [op |-> "none", raced |-> FALSE]

NoRequest == [served |-> FALSE, code |-> 0, container |-> "none",
              peerNs |-> "none", fallback |-> FALSE, err |-> "none"]

\* pid, ok := pidMapper.m[conn]; if !ok { http.Error(w, ..., 500) }
NoPidResponse == [served |-> FALSE, code |-> 500, container |-> "none",
                  peerNs |-> "none", fallback |-> FALSE,
                  err |-> "pid not in container?"]

\* whether the loop of lines 308-340 ends at PID 1 without having met a
\* command line that looks like a monitor's
RECURSIVE WalkReachesInit(_, _)
WalkReachesInit(tab, pid) ==
    IF pid > 1
    THEN ~LooksLikeMonitor[tab.cmdline[pid]]
         /\ WalkReachesInit(tab, tab.ppid[pid])
    ELSE TRUE

\* lines 102-118 for the recorded pid, with /proc as it is at the request
\* (tab) and the container list: a resolver error is answered 500, otherwise
\* the handler runs as the resolved container.  peerNs records the container
\* whose PID namespace holds the peer process, fallback whether the resolver
\* came to its PID-namespace step, err the resolver's error.
Response(tab, list, pid) ==
    LET c == findContainerForPid(tab, list, pid)
    IN  IF c.err # "nil"
        THEN [served |-> FALSE, code |-> 500, container |-> "none",
              peerNs |-> ContainerOfNs(tab, pid),
              fallback |-> WalkReachesInit(tab, pid), err |-> c.err]
        ELSE [served |-> TRUE, code |-> 200, container |-> c.name,
              peerNs |-> ContainerOfNs(tab, pid),
              fallback |-> WalkReachesInit(tab, pid), err |-> "nil"]

\* every response a request of the process pid can get, over all process
\* tables and container lists
Responses ==
    [pid \in 2..MaxPid |->
        {Response(tab, list, pid) : tab \in ProcTables, list \in ContainerLists}]

AllResponses == {NoPidResponse} \cup UNION {Responses[pid] : pid \in 2..MaxPid}

\* the wrapper of every devlxd handler, on a request read from conn, giving
\* the response resp
hoistReq(conn, resp) ==
    /\ connState[conn] = "active"
    /\ IF conn \notin DOMAIN pidMapper
       THEN resp = NoPidResponse
       ELSE resp \in Responses[pidMapper[conn]]
    /\ req' = resp
    /\ UNCHANGED <<connState, cred, pidMapper, mapAccess, execVars, cfgVars>>

DevInit ==
    /\ connState = [c \in UnixConns |-> "none"]
    /\ cred = [c \in UnixConns |-> -1]
    /\ pidMapper = <<>>
    /\ req = NoRequest
    /\ mapAccess = [c \in UnixConns |-> NoAccess]

ConnState ==
    \E conn \in UnixConns : \E state \in ConnStates :
      \E pid \in (2..MaxPid) \cup {-1} : ConnStateHandler(conn, state, pid)

Request ==
    \E conn \in UnixConns : \E resp \in AllResponses : hoistReq(conn, resp)

DevNext == ConnState \/ Request

-----------------------------------------------------------------------------
(* The accesses to pidMapper.m as the goroutines of net/http make them:    *)
(* StateNew is reported by the accept loop, the other states and the       *)
(* handlers run on the goroutine of the connection; the map has no lock    *)
(* (devlxd.go 96, 206-241)                                                 *)

\* the operation on m.m that ConnStateHandler makes for a state
MapOp(state, pid) ==
    CASE state = "new" /\ pid # -1 -> "insert"
      [] state \in {"hijacked", "closed"} -> "delete"
      [] OTHER -> "none"

\* two operations on a Go map that may not overlap: any two but two lookups
Conflict(op1, op2) ==
    /\ op1 # "none"
    /\ op2 # "none"
    /\ ~(op1 = "lookup" /\ op2 = "lookup")

\* the accesses in progress once op begins for conn: nothing keeps it from
\* beginning, and it and the accesses it conflicts with have raced
Begin(conn, op) ==
    [c \in UnixConns |->
        IF c = conn
        THEN [op |-> op,
              raced |-> \E d \in UnixConns \ {conn} :
                           Conflict(op, mapAccess[d].op)]
        ELSE IF Conflict(op, mapAccess[c].op)
             THEN [mapAccess[c] EXCEPT !.raced = TRUE]
             ELSE mapAccess[c]]

\* the values of pidMapper.m
PidMaps == UNION {[cs -> 2..MaxPid] : cs \in SUBSET UnixConns}

\* ConnStateHandler is called for conn; the accept loop reports one StateNew
\* at a time, and a connection's goroutine does one thing at a time
ConnStateEnter(conn, state, pid) ==
    /\ ServerReports(connState[conn], state)
    /\ mapAccess[conn].op = "none"
    /\ state = "new" => \A d \in UnixConns : mapAccess[d].op # "insert"
    /\ connState' = [connState EXCEPT ![conn] = state]
    /\ cred' = IF state = "new" THEN [cred EXCEPT ![conn] = pid] ELSE cred
    /\ mapAccess' = IF MapOp(state, pid) = "none" THEN mapAccess
                    ELSE Begin(conn, MapOp(state, pid))
    /\ UNCHANGED <<pidMapper, req, execVars, cfgVars>>

\* the insert or delete of the callback is done: m is the map it leaves, any
\* map when the access raced with another
ConnStateReturn(conn, m) ==
    /\ mapAccess[conn].op \in {"insert", "delete"}
    /\ IF mapAccess[conn].raced THEN m \in PidMaps
       ELSE m = MapAfter(pidMapper, conn, connState[conn], cred[conn])
    /\ pidMapper' = m
    /\ mapAccess' = [mapAccess EXCEPT ![conn] = NoAccess]
    /\ UNCHANGED <<connState, cred, req, execVars, cfgVars>>

\* hoistReq begins pidMapper.m[conn] (line 96)
LookupEnter(conn) ==
    /\ connState[conn] = "active"
    /\ mapAccess[conn].op = "none"
    /\ mapAccess' = Begin(conn, "lookup")
    /\ UNCHANGED <<connState, cred, pidMapper, req, execVars, cfgVars>>

\* the lookup is done and hoistReq answers: resp is any response when the
\* lookup raced with a write
LookupReturn(conn, resp) ==
    /\ mapAccess[conn].op = "lookup"
    /\ IF mapAccess[conn].raced THEN resp \in AllResponses
       ELSE IF conn \notin DOMAIN pidMapper THEN resp = NoPidResponse
       ELSE resp \in Responses[pidMapper[conn]]
    /\ req' = resp
    /\ mapAccess' = [mapAccess EXCEPT ![conn] = NoAccess]
    /\ UNCHANGED <<connState, cred, pidMapper, execVars, cfgVars>>

CallbackBegins ==
    \E conn \in UnixConns : \E state \in ConnStates :
      \E pid \in (2..MaxPid) \cup {-1} : ConnStateEnter(conn, state, pid)

CallbackEnds ==
    \E conn \in UnixConns : \E m \in PidMaps : ConnStateReturn(conn, m)

LookupBegins == \E conn \in UnixConns : LookupEnter(conn)

LookupEnds ==
    \E conn \in UnixConns : \E resp \in AllResponses : LookupReturn(conn, resp)

RaceNext == CallbackBegins \/ CallbackEnds \/ LookupBegins \/ LookupEnds

-----------------------------------------------------------------------------
(* The devlxd handlers configGet and configKeyGet, and the response writer *)
(* of hoistReq (devlxd.go 51-73, 108-118)                                  *)

\* longest value of a config entry, in characters
MaxValueLen == 2

\* strings are their characters
UserPrefix == <<"u", "s", "e", "r", ".">>
ConfigPath == <<"/", "1", ".", "0", "/", "c", "o", "n", "f", "i", "g", "/">>
NotAuthorized == <<"n", "o", "t", " ", "a", "u", "t", "h", "o", "r", "i", "z", "e", "d">>
NotFound == <<"n", "o", "t", " ", "f", "o", "u", "n", "d">>

\* the keys a container config may hold: "user.f", "user." and "users"
ConfigKeys == {<<"u", "s", "e", "r", ".", "f">>, <<"u", "s", "e", "r", ".">>, <<"u", "s", "e", "r", "s">>}

\* the {key} of a request: a config key or "lim"
RequestKeys == ConfigKeys \cup {<<"l", "i", "m">>}

\* config values: every string over "a" and "%" up to MaxValueLen characters
ConfigValues == UNION {[1..n -> {"a", "%"}] : n \in 0..MaxValueLen}

\* c.config: a map from some of the keys to values
Configs == UNION {[ks -> ConfigValues] : ks \in SUBSET ConfigKeys}

\* OkResponse(ct, ctype)
OkResponse(ct, ctype) == [content |-> ct, code |-> 200, ctype |-> ctype]

\* fmt.Sprintf("/1.0/config/%s", k)
Sprintf(k) == ConfigPath \o k

\* the orders in which `for k, _ := range c.config` may visit the keys
KeyOrders(cfg) ==
    {o \in [1..Cardinality(DOMAIN cfg) -> DOMAIN cfg] :
        \A i, j \in DOMAIN o : o[i] = o[j] => i = j}

\* Filtered without the test of the prefix: every key is listed
FilteredNoPrefixTest(order) == [i \in 1..Len(order) |-> Sprintf(order[i])]

\* the loop of configGet over the keys in the order of the iteration
Filtered(order) ==
    LET user == SelectSeq(order, LAMBDA k : HasPrefix(k, UserPrefix))
    IN  [i \in 1..Len(user) |-> Sprintf(user[i])]

configGet(cfg, order) == OkResponse(Filtered(order), "json")

configKeyGet(cfg, key) ==
    IF ~HasPrefix(key, UserPrefix)
    THEN [content |-> NotAuthorized, code |-> 403, ctype |-> "raw"]
    ELSE IF key \notin DOMAIN cfg
    THEN [content |-> NotFound, code |-> 404, ctype |-> "raw"]
    ELSE OkResponse(cfg[key], "raw")

\* what fmt prints for a verb without operand, and for a "%" that ends the
\* format
MissingArg(verb) == <<"%", "!", verb>> \o <<"(", "M", "I", "S", "S", "I", "N", "G", ")">>
NoVerb == <<"%", "!", "(", "N", "O", "V", "E", "R", "B", ")">>

\* fmt.Fprintf(w, format) with no operands: "%%" prints "%", any other verb
\* has no operand
RECURSIVE Fprintf(_)
Fprintf(format) ==
    IF format = <<>> THEN <<>>
    ELSE IF format[1] # "%" THEN <<format[1]>> \o Fprintf(Tail(format))
    ELSE IF Len(format) = 1 THEN NoVerb
    ELSE IF format[2] = "%"
         THEN <<"%">> \o Fprintf(SubSeq(format, 3, Len(format)))
    ELSE MissingArg(format[2]) \o Fprintf(SubSeq(format, 3, Len(format)))

\* http.Error(w, error, code): the status and the message followed by a
\* line end
HttpError(msg, code) == [code |-> code, body |-> msg \o <<"\n">>]

\* lines 108-118: the response hoistReq writes for what the handler returned;
\* a raw content is given to Fprintf as its format
WriteResponse(resp) ==
    IF resp.code # 200 THEN HttpError(resp.content, resp.code)
    ELSE IF resp.ctype = "json" THEN [code |-> 200, body |-> resp.content]
    ELSE [code |-> 200, body |-> Fprintf(resp.content)]

NoHttpResp == [handler |-> "none", key |-> <<>>, code |-> 0, body |-> <<>>]

\* GET /1.0/config/{key} served as the container with the config
GetConfigKey(key) ==
    /\ httpResp' = [handler |-> "configKeyGet", key |-> key,
                    code |-> WriteResponse(configKeyGet(config, key)).code,
                    body |-> WriteResponse(configKeyGet(config, key)).body]
    /\ UNCHANGED <<config, execVars, devVars>>

\* GET /1.0/config
GetConfig(order) ==
    /\ httpResp' = [handler |-> "configGet", key |-> <<>>,
                    code |-> WriteResponse(configGet(config, order)).code,
                    body |-> WriteResponse(configGet(config, order)).body]
    /\ UNCHANGED <<config, execVars, devVars>>

\* the config of the sessions that serve no config request
CfgInit ==
    /\ config = <<>>
    /\ httpResp = NoHttpResp

ConfigKeyRequest == \E key \in RequestKeys : GetConfigKey(key)

ConfigRequest == \E order \in KeyOrders(config) : GetConfig(order)

ConfigNext == ConfigKeyRequest \/ ConfigRequest

-----------------------------------------------------------------------------
(* Specifications *)

Init == ExecInit /\ DevInit /\ CfgInit

\* the exec session
Spec == Init /\ [][ExecNext]_vars

\* the devlxd socket
DevSpec == Init /\ [][DevNext]_vars

\* the exec session with the fairness of the Go scheduler: a goroutine that
\* can take its next step takes it (the orchestrator after the process has
\* exited, the control reader's select once a case is ready)
DoProgress ==
    \/ DoAfterRun
    \/ \E i \in {1, 2} : DoWaitEOF(i)
    \/ DoCloseAll
    \/ DoCheckControl
    \/ DoSendExit

FairSpec == Spec /\ WF_vars(DoProgress) /\ WF_vars(ReaderConnected)

\* the devlxd socket with the accesses to the map as steps that begin and end
RaceSpec == Init /\ [][RaceNext]_vars

\* the exec session with the fairness of the Go scheduler for the attach
\* handshake: a Connect() that can make its send makes it, and Do() takes the
\* value waiting in allConnected
SendSignal == \E c \in CallRecords : ConnectSignal(c)

ReadySpec == Spec /\ WF_vars(SendSignal) /\ WF_vars(DoWait)

\* the config handlers, for every config a container may have
ConfigInit ==
    /\ ExecInit
    /\ DevInit
    /\ config \in Configs
    /\ httpResp = NoHttpResp

ConfigSpec == ConfigInit /\ [][ConfigNext]_vars

-----------------------------------------------------------------------------
(* Properties of the exec session *)

Secrets == {fds[i] : i \in DOMAIN fds}

\* a step in which a Connect() call begins, and the secret it is given: the
\* call either returns at once (ret is written) or joins the calls in flight
CallStarts == started' = started + 1
CallReturnsAtOnce == call' = call
StartSecret ==
    IF CallReturnsAtOnce THEN ret'.secret
    ELSE (CHOOSE c \in CallRecords : call' = call (+) One(c)).secret

\* a step in which the in-flight call c takes its upgrade and gets a WebSocket
UpgradeSucceeds(c) ==
    /\ BagIn(c, call)
    /\ c.pc = "upgrade"
    /\ call' = (call (-) One(c)) (+) One([c EXCEPT !.pc = "signal"])

\* a step in which the in-flight call c returns from a failed upgrade
UpgradeFails(c) ==
    /\ BagIn(c, call)
    /\ c.pc = "upgrade"
    /\ call' = call (-) One(c)

SessionUntouched ==
    /\ conns' = conns
    /\ fds' = fds
    /\ allConnected' = allConnected
    /\ controlConnected' = controlConnected

\* C1: a Connect() with a secret that is none of the session's secrets
\* returns the permission error at once - no upgrade, conns and both signals
\* untouched; no call gets past the secret check with a secret other than
\* that of the index it matched, and an entry of conns changes only by the
\* upgrade of a call whose secret is that of the entry's index.
C1_NoAdmissionWithoutSecret ==
    [][/\ (CallStarts /\ StartSecret \notin Secrets) =>
            /\ CallReturnsAtOnce
            /\ ret'.result = "Permission"
            /\ SessionUntouched
       /\ \A c \in BagToSet(call') :
            c.fd \in DOMAIN fds' /\ c.secret = fds'[c.fd]
       /\ \A i \in DOMAIN conns :
            conns'[i] # conns[i] =>
              \E c \in BagToSet(call) :
                UpgradeSucceeds(c) /\ c.fd = i /\ c.secret = fds[i]]_vars

\* C1 witness: a call with an unknown secret has just been refused while an
\* index of the session is attached
C1_Witness ==
    /\ ret = [secret |-> BadSecret, result |-> "Permission"]
    /\ \E i \in DOMAIN conns : conns[i] # Nil

\* C2: once index i holds a WebSocket, conns[i] is never replaced, and a
\* Connect() begun with the secret of i returns Conflict at once (no upgrade,
\* no signal).
C2_SecretAdmitsOneWebSocket ==
    [][\A i \in DOMAIN conns :
         conns[i] # Nil =>
           /\ conns'[i] = conns[i]
           /\ (CallStarts /\ StartSecret = fds[i]) =>
                /\ CallReturnsAtOnce
                /\ ret'.result = "Conflict"
                /\ SessionUntouched]_vars

\* C3: in a batch session Do() has not closed the read ends of the output
\* pipes, nor returned, while the bridge of index 1 or of index 2 is running.
C3_DoWaitsForBothOutputBridges ==
    (post = "AsyncWs" /\ ~interactive /\ doPc \in {"checkControl", "returned"})
        => \A i \in {1, 2} : bridge[i] # "running"

\* C4: in an interactive session Do() has not closed the PTY master, nor
\* returned, while the mirror on index 0 is running.
C4_DoWaitsForMirror ==
    (post = "AsyncWs" /\ interactive
        /\ doPc \in {"checkControl", "sendExit", "returned"})
        => mirror # "running"

\* C5: in an interactive session, once the process has exited, Do() returns,
\* whenever the control channel attaches.
C5_ControlCannotDeadlock ==
    (post = "AsyncWs" /\ interactive /\ proc = "exited") ~> (doPc = "returned")

\* C6: a Connect() whose upgrade fails leaves conns, fds and both signals as
\* they were and returns the upgrade's error; and the call the client then
\* repeats with the same secret is admitted and, when its upgrade succeeds,
\* stores its WebSocket under the index.
C6_FailedUpgradeKeepsSecret ==
    [][/\ \A c \in BagToSet(call) :
            /\ UpgradeFails(c) =>
                 /\ SessionUntouched
                 /\ ret' = [secret |-> c.secret, result |-> "UpgradeError"]
            /\ (UpgradeSucceeds(c) /\ c.retry) =>
                 /\ conns'[c.fd] # Nil
                 /\ conns'[c.fd] # conns[c.fd]
                 /\ \A i \in DOMAIN conns \ {c.fd} : conns'[i] = conns[i]
       /\ (CallStarts /\ ret.result = "UpgradeError"
             /\ StartSecret = ret.secret /\ ret.secret \in Secrets) =>
            /\ ~CallReturnsAtOnce
            /\ \E c \in BagToSet(call') :
                 c.pc = "upgrade" /\ c.secret = ret.secret /\ c.retry]_vars

\* C6 witness: index 0 holds its first WebSocket, stored by a call repeated
\* after a failed upgrade
C6_Witness ==
    /\ 0 \in DOMAIN conns
    /\ conns[0] = 1
    /\ \E c \in BagToSet(call) : c.pc = "signal" /\ c.fd = 0 /\ c.retry

\* C7: after Do() has returned, a Connect() begun with the secret of an index
\* that never attached returns Gone at once (no upgrade, conns untouched).
C7_LateAttachIsGone ==
    [][\A i \in DOMAIN conns :
         (doPc = "returned" /\ conns[i] = Nil /\ CallStarts
            /\ StartSecret = fds[i]) =>
           /\ CallReturnsAtOnce
           /\ ret'.result = "Gone"
           /\ SessionUntouched]_vars

\* C10: an exec POST whose argv is empty is answered BadRequest: no session
\* is created or advertised and no process is run.
C10_EmptyArgvIsBadRequest ==
    (post # "none" /\ command = <<>>) =>
        /\ post \in {"SmartError", "BadRequest"}
        /\ DOMAIN fds = {}
        /\ proc = "none"

\* Do() has been through the allocation of lines 82-101 and it failed: OpenPty
\* gave no files, or a pipe is missing
StdioAllocFailed ==
    /\ post = "AsyncWs"
    /\ doPc \notin {"idle", "wait", "alloc"}
    /\ IF interactive THEN ttys[0] = "nil"
       ELSE \E i \in StdFds : ttys[i] = "none"

\* C13: when the allocation of stdio failed, in either mode, the process is
\* never launched and what Do() returns is an error.
C13_StdioFailureIsFatal ==
    StdioAllocFailed =>
        /\ proc = "none"
        /\ doPc = "returned" => doResult = "error"

\* a string of decimal digits
DecimalInteger(s) == s # <<>> /\ \A k \in 1..Len(s) : s[k] \in Digits

\* the messages the control reader must pass over: malformed JSON, a
\* window-resize whose width or height is no decimal integer, an unknown
\* command
PassedOver(msg) ==
    \/ msg.kind = "badjson"
    \/ /\ msg.kind = "json"
       /\ \/ msg.command # "window-resize"
          \/ ~DecimalInteger(msg.width)
          \/ ~DecimalInteger(msg.height)

ValidResize(msg) ==
    /\ msg.kind = "json"
    /\ msg.command = "window-resize"
    /\ DecimalInteger(msg.width)
    /\ DecimalInteger(msg.height)

\* a step in which the control reader, in its loop, changes something it
\* alone writes
ReaderTurn ==
    /\ reader = "loop"
    /\ <<reader', winSize', skipLog'>> # <<reader, winSize, skipLog>>

\* C14: a turn of the control reader on a malformed message, a window-resize
\* with a non-integer dimension or an unknown command sets no window size and
\* leaves the reader in its loop and Do() and the process as they are; a turn
\* on a valid window-resize then sets the size of the PTY master to its width
\* and height (when the ioctl succeeds).
C14_BadControlMessagesAreSkipped ==
    [][ReaderTurn =>
         \A msg \in ControlMessages : \A sizeOk \in SetSizeOutcomes(msg) :
           ReaderMessage(msg, sizeOk) =>
             /\ PassedOver(msg) =>
                  /\ ~SetSizeCalled(msg)
                  /\ winSize' = winSize
                  /\ reader' = "loop"
                  /\ doPc' = doPc
                  /\ proc' = proc
             /\ ValidResize(msg) =>
                  /\ SetSizeCalled(msg)
                  /\ reader' = "loop"
                  /\ sizeOk => winSize' = <<DecimalValue(msg.width),
                                            DecimalValue(msg.height)>>]_vars

\* C14 witness: the reader skipped a message, then a window-resize set the
\* size to 80 x 24, and the reader is in its loop
C14_Witness ==
    /\ skipLog = "resized"
    /\ winSize = <<80, 24>>
    /\ reader = "loop"

\* an in-flight Connect() that has stored its WebSocket and cannot make its
\* send: the buffer of the channel is full
BlockedOnSend(c) ==
    /\ c.pc = "signal"
    /\ \/ SignalOf(c.fd) = "controlConnected" /\ controlConnected = ChanCap
       \/ SignalOf(c.fd) = "allConnected" /\ allConnected = ChanCap

\* C15: no Connect() call is ever suspended in its send on allConnected or
\* controlConnected.
C15_ConnectNeverBlocksOnSend ==
    \A c \in BagToSet(call) : ~BlockedOnSend(c)

\* allConnected has been signalled: the value is in the channel, or Do() has
\* taken it
AllConnectedSignalled ==
    /\ post = "AsyncWs"
    /\ allConnected > 0 \/ doPc # "wait"

\* C16: once allConnected has been signalled, no step writes conns or fds.
C16_ConnsFrozenAfterReadiness ==
    [][AllConnectedSignalled => (conns' = conns /\ fds' = fds)]_vars

\* C17: when Do() has returned, by whatever path, none of the ptys, ttys and
\* pipe ends it opened is still open.
C17_DoClosesEveryFile ==
    (post = "AsyncWs" /\ doPc = "returned") =>
        \A i \in StdFds : ttys[i] # "open" /\ ptys[i] # "open"

\* every index other than the control index holds a WebSocket
EveryStdIndexAttached ==
    /\ post = "AsyncWs"
    /\ \A i \in DOMAIN conns \ {ControlFd} : conns[i] # Nil

\* C19: Do() is past its wait on allConnected only when every non-control
\* index is attached, and once they all are Do() does get past the wait,
\* whether or not the control index is attached.
C19_ReadyIffAllStdAttached ==
    /\ []((post = "AsyncWs" /\ doPc # "wait") => EveryStdIndexAttached)
    /\ EveryStdIndexAttached ~> (doPc # "wait")

\* C19 witness: a batch session whose Do() has passed the wait with the three
\* stdio indices attached and the control index not
C19_Witness ==
    /\ post = "AsyncWs"
    /\ ~interactive
    /\ doPc = "alloc"
    /\ conns[ControlFd] = Nil
    /\ \A i \in StdFds : conns[i] # Nil

-----------------------------------------------------------------------------
(* Properties of the devlxd socket *)

\* C8: for a connecting process inside a container's PID namespace, the
\* container a devlxd handler is run as is that container, whatever the
\* command lines of the process and of its ancestors say.
C8_IdentityIsPeerNamespace ==
    (req.served /\ req.peerNs \in ContainerNames) =>
        req.container = req.peerNs

\* C9: the map holds no entry for a connection whose last state is closed or
\* hijacked, and an entry is the PID getPid() returned at the connection's
\* new state (none when getPid() failed).
C9_PidMapFollowsConnState ==
    \A conn \in UnixConns :
      /\ connState[conn] \in {"closed", "hijacked"} =>
           conn \notin DOMAIN pidMapper
      /\ conn \in DOMAIN pidMapper =>
           /\ cred[conn] # -1
           /\ pidMapper[conn] = cred[conn]

\* C9 witness: one connection was recorded and then hijacked, the other is
\* recorded, and idle after a request
C9_Witness ==
    /\ connState["conn-a"] = "hijacked"
    /\ cred["conn-a"] = 2
    /\ connState["conn-b"] = "idle"
    /\ "conn-b" \in DOMAIN pidMapper
    /\ pidMapper["conn-b"] = 3


\* C18: when the resolver came to its PID-namespace step (the walk met no
\* monitor) and the peer is in the PID namespace of a known container, the
\* handler runs as that container, whatever the other known containers and
\* their order; when the peer is in no container's namespace the answer is
\* the NotInContainer error.
C18_NamespaceFallbackResolves ==
    req.fallback =>
        /\ req.peerNs \in ContainerNames =>
             /\ req.served
             /\ req.container = req.peerNs
        /\ req.peerNs = "none" =>
             /\ ~req.served
             /\ req.err = "pid not in container?"

\* C20: while an insert or delete of the callback of one connection is in
\* progress, no insert, delete or lookup is in progress for another
\* connection.
C20_MapAccessesAreExclusive ==
    \A a, b \in UnixConns :
      (a # b /\ mapAccess[a].op \in {"insert", "delete"}) =>
          mapAccess[b].op = "none"

-----------------------------------------------------------------------------
(* Properties of the config handlers *)

\* a key that begins with "user."
BeginsWithUser(k) ==
    /\ Len(k) >= 5
    /\ k[1] = "u" /\ k[2] = "s" /\ k[3] = "e" /\ k[4] = "r" /\ k[5] = "."

\* C11: GET /1.0/config/{key} answers 403 "not authorized" for a key that
\* does not begin with "user." (in the config or not), 404 for an absent key
\* that does, and 200 with the stored value as the body for a present one.
\* The line end http.Error puts after an error message is accepted.
C11_ConfigKeyGetContract ==
    httpResp.handler = "configKeyGet" =>
        LET key == httpResp.key
        IN  /\ ~BeginsWithUser(key) =>
                 /\ httpResp.code = 403
                 /\ httpResp.body \in {NotAuthorized, NotAuthorized \o <<"\n">>}
            /\ (BeginsWithUser(key) /\ key \notin DOMAIN config) =>
                 httpResp.code = 404
            /\ (BeginsWithUser(key) /\ key \in DOMAIN config) =>
                 /\ httpResp.code = 200
                 /\ httpResp.body = config[key]

\* C12: GET /1.0/config answers 200 with exactly the paths "/1.0/config/<k>"
\* of the config keys k that begin with "user.", each of them once.
C12_ConfigListIsUserKeys ==
    httpResp.handler = "configGet" =>
        LET userKeys == {k \in DOMAIN config : BeginsWithUser(k)}
        IN  /\ httpResp.code = 200
            /\ {httpResp.body[i] : i \in DOMAIN httpResp.body}
                 = {ConfigPath \o k : k \in userKeys}
            /\ Len(httpResp.body) = Cardinality(userKeys)

\* C12 witness: the list was served for a config with two user keys and a
\* key outside the namespace
C12_Witness ==
    /\ httpResp.handler = "configGet"
    /\ DOMAIN config = ConfigKeys
    /\ Len(httpResp.body) = 2

=============================================================================
